---- MODULE Spec2Model ----
(***************************************************************************)
(* Pythagorean N-tuple generators: ptuples (exhaustive odometer search),   *)
(* qkptuples (substitution growth from Euclid triples).                    *)
(*                                                                         *)
(* Tables are sequences of entries [a_count, a, ptr, b]: a is the value of *)
(* the a-vector, ptr the identity of its storage (0 is NULL).  Array       *)
(* indices keep the source's 0-based values; t[k+1] reads tuples[k].       *)
(* Command-line numbers are two-limb values <<hi, lo>> in base 2^16, so    *)
(* that the ceiling 2^32-2 is representable; inside the engines, where     *)
(* the values are small, they are plain integers.                          *)
(***************************************************************************)
EXTENDS Integers, Sequences, FiniteSets, TLC

VARIABLES
  pc,                 \* position of the program
  args,               \* the command line: prog, argc, argv1, tuple_size, b_min, b_max
  DoOnlyPrimitives,   \* main's flag
  exitcode,           \* -1 while running
  called,             \* BuildNTuples has been entered
  out,                \* printed lines, each <<a-vector, b>>
  tuples,             \* main's result table
  allocs,             \* a-vector allocations so far; the next gets id allocs + 1
  oob,                \* content of the memory around an empty sqrs block
  i,                  \* ptuples BuildNTuples: tumbler index
  sqrindextumbler,
  subtotaltumbler,
  tmp_table,
  threetuple,         \* qkptuples BuildNTuples
  onesmaller_table,
  beingbuilt_table,
  tsize,
  gi,                 \* loop index i of the growth loop
  gj,                 \* loop index j of the growth loop
  b3n,                \* Build3Tuples: n
  rq,                 \* argument of a unit run (TupleIsPrimitive, RemDupTuples)
  ret,                \* its result
  triples,            \* ptriples: main's table
  pn,                 \* ptriples: n of the outer loop
  pout,               \* ptriples: printed lines, each <<a, b, c>>
  pexit,              \* ptriples: exit code, -1 while running
  freed               \* ids of the a-vectors released so far, in order of release

ptriplesVars == <<triples, pn, pout, pexit>>

heapVars == <<freed>>

vars == <<pc, args, DoOnlyPrimitives, exitcode, called, out, tuples, allocs, oob,
          i, sqrindextumbler, subtotaltumbler, tmp_table,
          threetuple, onesmaller_table, beingbuilt_table, tsize, gi, gj, b3n, rq, ret, ptriplesVars, heapVars>>

engineVars == <<oob, i, sqrindextumbler, subtotaltumbler, tmp_table,
                threetuple, onesmaller_table, beingbuilt_table, tsize, gi, gj, b3n>>

(***************************************************************************)
(* Bounds of the model.                                                    *)
(***************************************************************************)
MaxN == 4          \* largest tuple_size drawn
MaxB == 8          \* largest b drawn for ptuples
MaxBq == 26        \* largest b drawn for qkptuples
MaxGarbage == 1    \* out-of-bounds reads yield a value in 0..MaxGarbage
MaxVal == 6        \* unit runs of TupleIsPrimitive: largest value drawn
MaxCount == 3      \* unit runs of TupleIsPrimitive: largest acount drawn
MaxA == 6          \* unit runs of RemDupTuples: largest a-value drawn
MaxLen == 3        \* unit runs of RemDupTuples: largest table drawn
MaxT == 20         \* ptriples against the tuple programs: largest c drawn
MaxC == 50         \* unit runs of Build3Tuples: largest b drawn
MaxH == 25         \* unit runs of GetFirstBIndex: largest b in the table

(***************************************************************************)
(* BigIntOps (GMP), on plain integers.                                     *)
(***************************************************************************)
mpz_cmp(x, y) == IF x < y THEN -1 ELSE IF x > y THEN 1 ELSE 0

RECURSIVE mpz_gcd(_, _)
mpz_gcd(x, y) == IF y = 0 THEN x ELSE mpz_gcd(y, x % y)

mpz_sqrt(x) == CHOOSE r \in 0..x : r * r <= x /\ (r + 1) * (r + 1) > x

mpz_perfect_square_p(x) == mpz_sqrt(x) * mpz_sqrt(x) = x

\* two-limb command-line values
Limb == 2 ^ 16
Small(k) == <<0, k>>
mpz_cmp2(x, y) ==
  IF x[1] # y[1] THEN mpz_cmp(x[1], y[1]) ELSE mpz_cmp(x[2], y[2])

MAXB == <<Limb - 1, Limb - 2>>

(***************************************************************************)
(* Comparators and qsort.                                                  *)
(***************************************************************************)
Min(x, y) == IF x < y THEN x ELSE y

tentry_avalues_cmpfunc(p1, p2) == mpz_cmp(p1, p2)

RECURSIVE CmpAvalues(_, _, _, _)
CmpAvalues(a1, a2, k, a_count) ==
  IF k >= a_count THEN 0
  ELSE LET c == mpz_cmp(a1[k + 1], a2[k + 1])
       IN IF c # 0 THEN c ELSE CmpAvalues(a1, a2, k + 1, a_count)

ttable_tentry_cmpfunc(entry1, entry2) ==
  LET cmpval == mpz_cmp(entry1.b, entry2.b)
  IN IF cmpval # 0 THEN cmpval
     ELSE CmpAvalues(entry1.a, entry2.a, 0, Min(entry1.a_count, entry2.a_count))

ttable_tentry_Bonly_cmpfunc(entry1, entry2) == mpz_cmp(entry1.b, entry2.b)

\* faulty variant: the a-vector stored as supplied
QsortAvalues_None(a) == a

\* qsort of an a-vector: the elements are values, ties are indistinguishable
QsortAvalues(a) ==
  LET n == Len(a)
      rank == [x \in 1..n |->
                Cardinality({y \in 1..n :
                  \/ tentry_avalues_cmpfunc(a[y], a[x]) < 0
                  \/ tentry_avalues_cmpfunc(a[y], a[x]) = 0 /\ y < x})]
  IN [k \in 1..n |-> a[CHOOSE x \in 1..n : rank[x] = k - 1]]

\* faulty variant: the qsort call left out
QsortTable_Unsorted(t, stable) == t

\* qsort of a table by ttable_tentry_cmpfunc.  qsort does not say where
\* elements that compare equal end up: stable keeps them in their order,
\* ~stable reverses them.
QsortTable(t, stable) ==
  LET n == Len(t)
      rank == [x \in 1..n |->
                Cardinality({y \in 1..n :
                  LET c == ttable_tentry_cmpfunc(t[y], t[x])
                  IN c < 0 \/ (c = 0 /\ IF stable THEN y < x ELSE y > x)})]
  IN [k \in 1..n |-> t[CHOOSE x \in 1..n : rank[x] = k - 1]]

(***************************************************************************)
(* TupleTable operations shared by both programs.                          *)
(***************************************************************************)
\* faulty variant: the source slot keeps its a pointer and a_count
NullSlot_Keep(e) == e

NullSlot(e) == [e EXCEPT !.a_count = 0, !.a = <<>>, !.ptr = 0]

\* the entry MovePTuple stores: the a-vector sorted in place, b copied
NewEntry(avalues, ptr, a_count, b) ==
  [a_count |-> a_count, a |-> QsortAvalues(avalues), ptr |-> ptr, b |-> b]

MovePTuple(the_ttable, avalues, ptr, a_count, b) ==
  Append(the_ttable, NewEntry(avalues, ptr, a_count, b))

\* faulty variant: the entries are released but count and tuples are left as they were
Cleanup_ttable_KeepsEntries(the_ttable) ==
  [the_ttable |-> the_ttable,
   avalues |-> UNION {{<<k, j>> : j \in 1..the_ttable[k].a_count} : k \in 1..Len(the_ttable)},
   avectors |-> LET held == SelectSeq(the_ttable, LAMBDA e : e.ptr # 0)
                IN [k \in 1..Len(held) |-> held[k].ptr],
   bvalues |-> 1..Len(the_ttable)]

\* Cleanup_ttable on a table that is there: the table it leaves (count = 0,
\* tuples = NULL), the a-values <<slot, j>> and the b values (by slot) it
\* clears, and the a-vectors it frees, in order (free( NULL ) frees nothing)
Cleanup_ttable(the_ttable) ==
  [the_ttable |-> <<>>,
   avalues |-> UNION {{<<k, j>> : j \in 1..the_ttable[k].a_count} : k \in 1..Len(the_ttable)},
   avectors |-> LET held == SelectSeq(the_ttable, LAMBDA e : e.ptr # 0)
                IN [k \in 1..Len(held) |-> held[k].ptr],
   bvalues |-> 1..Len(the_ttable)]

RECURSIVE CheckDupFrom(_, _, _, _)
CheckDupFrom(avalues1, avalues2, k, count) ==
  IF k >= count THEN 1
  ELSE IF mpz_cmp(avalues1[k + 1], avalues2[k + 1]) # 0 THEN 0
  ELSE CheckDupFrom(avalues1, avalues2, k + 1, count)

CheckForDuplicateTuple(avalues1, avalues2, count) ==
  CheckDupFrom(avalues1, avalues2, 0, count)

RECURSIVE FoldGcd(_, _, _, _, _)
FoldGcd(gcd, avalues, b, k, acount) ==
  IF gcd = 1 THEN 1
  ELSE IF k < acount THEN FoldGcd(mpz_gcd(gcd, avalues[k + 1]), avalues, b, k + 1, acount)
  ELSE IF mpz_gcd(gcd, b) = 1 THEN 1 ELSE 0

\* faulty variant: b is never folded into the gcd
RECURSIVE FoldGcd_NoB(_, _, _, _)
FoldGcd_NoB(gcd, avalues, k, acount) ==
  IF gcd = 1 THEN 1
  ELSE IF k < acount THEN FoldGcd_NoB(mpz_gcd(gcd, avalues[k + 1]), avalues, k + 1, acount)
  ELSE 0

TupleIsPrimitive_NoB(avalues, b, acount) ==
  IF acount < 2 THEN 0
  ELSE FoldGcd_NoB(mpz_gcd(avalues[1], avalues[2]), avalues, 2, acount)

TupleIsPrimitive(avalues, b, acount) ==
  IF acount < 2 THEN 0
  ELSE FoldGcd(mpz_gcd(avalues[1], avalues[2]), avalues, b, 2, acount)

(***************************************************************************)
(* ptuples: RemDupTuples with NumDupsAhead.                                *)
(***************************************************************************)
RECURSIVE NumDupsFrom(_, _, _)
NumDupsFrom(the_table, k, DupCount) ==
  IF k < Len(the_table) - 1
     /\ CheckForDuplicateTuple(the_table[k + 1].a, the_table[k + 2].a,
                               the_table[k + 1].a_count) = 1
  THEN NumDupsFrom(the_table, k + 1, DupCount + 1)
  ELSE DupCount

\* faulty variant: no entry is ever taken for a duplicate
NumDupsAhead_None(the_table, curindex) == 0

\* faulty variant: the look-ahead stops after the first duplicate
NumDupsAhead_One(the_table, curindex) ==
  IF curindex < Len(the_table) - 1
     /\ CheckForDuplicateTuple(the_table[curindex + 1].a, the_table[curindex + 2].a,
                               the_table[curindex + 1].a_count) = 1
  THEN 1 ELSE 0

NumDupsAhead(the_table, curindex) == NumDupsFrom(the_table, curindex, 0)

\* the scan of RemDupTuples: [old |-> the_table with moved slots nulled, new |-> new_table]
RECURSIVE PtRemDupLoop(_, _, _)
PtRemDupLoop(the_table, new_table, k) ==
  IF k >= Len(the_table) THEN [old |-> the_table, new |-> new_table]
  ELSE LET skip == NumDupsAhead(the_table, k)
           e == the_table[k + 1]
       IN PtRemDupLoop([the_table EXCEPT ![k + 1] = NullSlot(e)],
                       MovePTuple(new_table, e.a, e.ptr, e.a_count, e.b),
                       k + skip + 1)

PtRemDupTuples(the_table, stable) ==
  IF Len(the_table) <= 1 THEN the_table
  ELSE PtRemDupLoop(QsortTable(the_table, stable), <<>>, 0).new

\* line 331: the a-vectors Cleanup_ttable frees in what the scan left behind
PtRemDupFreed(the_table, stable) ==
  IF Len(the_table) <= 1 THEN <<>>
  ELSE Cleanup_ttable(PtRemDupLoop(QsortTable(the_table, stable), <<>>, 0).old).avectors

(***************************************************************************)
(* qkptuples: RemDupTuples comparing each slot with the slot before it.    *)
(***************************************************************************)
RECURSIVE QkRemDupLoop(_, _, _)
QkRemDupLoop(the_table, new_table, k) ==
  IF k >= Len(the_table) THEN [old |-> the_table, new |-> new_table]
  ELSE LET IsDuplicateTuple ==
             IF k > 0
             THEN CheckForDuplicateTuple(the_table[k].a, the_table[k + 1].a,
                                         the_table[k].a_count)
             ELSE 0
           e == the_table[k + 1]
       IN IF IsDuplicateTuple = 0
          THEN QkRemDupLoop([the_table EXCEPT ![k + 1] = NullSlot(e)],
                            MovePTuple(new_table, e.a, e.ptr, e.a_count, e.b),
                            k + 1)
          ELSE QkRemDupLoop(the_table, new_table, k + 1)

QkRemDupTuples(the_table, stable) ==
  IF Len(the_table) <= 1 THEN the_table
  ELSE QkRemDupLoop(QsortTable(the_table, stable), <<>>, 0).new

\* line 469: the a-vectors Cleanup_ttable frees in what the scan left behind
QkRemDupFreed(the_table, stable) ==
  IF Len(the_table) <= 1 THEN <<>>
  ELSE Cleanup_ttable(QkRemDupLoop(QsortTable(the_table, stable), <<>>, 0).old).avectors

\* the source table after the move: the slots of the moved entries nulled
MovedOut(from_table, prim) ==
  [k \in 1..Len(from_table) |->
     IF prim = 1 /\ TupleIsPrimitive(from_table[k].a, from_table[k].b,
                                     from_table[k].a_count) = 0
     THEN from_table[k]
     ELSE NullSlot(from_table[k])]

\* faulty variant: the -p filter left out
MoveToFinal_NoFilter(final_table, from_table, prim) ==
  final_table \o [k \in 1..Len(from_table) |->
                    NewEntry(from_table[k].a, from_table[k].ptr,
                             from_table[k].a_count, from_table[k].b)]

\* the move of a deduplicated table into the result table, with the -p
\* filter: the entries that pass, each stored by MovePTuple in turn
MoveToFinal(final_table, from_table, prim) ==
  LET moved == SelectSeq(from_table,
                 LAMBDA e : ~(prim = 1 /\ TupleIsPrimitive(e.a, e.b, e.a_count) = 0))
  IN final_table \o [k \in 1..Len(moved) |->
                       NewEntry(moved[k].a, moved[k].ptr, moved[k].a_count, moved[k].b)]

(***************************************************************************)
(* The command line and main.                                              *)
(***************************************************************************)
N == args.tuple_size
b_min == args.b_min[2]
b_max == args.b_max[2]

\* the engines run on values that fit one limb
Runnable == args.b_min[1] = 0 /\ args.b_max[1] = 0

Exit(code) ==
  /\ pc' = "exit"
  /\ exitcode' = code
  /\ UNCHANGED <<called, out, tuples, allocs, engineVars, rq, ret, ptriplesVars, heapVars>>

\* faulty variant: the ceiling test written >= instead of >
ValidateArgs_CeilingInclusive(a) ==
  IF a.argc # 4 /\ a.argc # 5 THEN 1
  ELSE IF a.tuple_size < 3 THEN 1
  ELSE IF mpz_cmp2(a.b_min, Small(1)) < 0 THEN 1
  ELSE IF mpz_cmp2(a.b_min, a.b_max) > 0 THEN 1
  ELSE IF a.prog = "ptuples" /\ mpz_cmp2(a.b_max, MAXB) >= 0 THEN 1
  ELSE 0

\* the checks of main before the call: the exit code, 0 to go on
ValidateArgs(a) ==
  IF a.argc # 4 /\ a.argc # 5 THEN 1
  ELSE IF a.tuple_size < 3 THEN 1
  ELSE IF mpz_cmp2(a.b_min, Small(1)) < 0 THEN 1
  ELSE IF mpz_cmp2(a.b_min, a.b_max) > 0 THEN 1
  ELSE IF a.prog = "ptuples" /\ mpz_cmp2(a.b_max, MAXB) > 0 THEN 1
  ELSE 0

Main ==
  /\ pc = "main"
  /\ UNCHANGED args
  /\ DoOnlyPrimitives' = IF args.argc = 5 /\ args.argv1 = "-p" THEN 1 ELSE 0
  /\ IF ValidateArgs(args) # 0
     THEN Exit(ValidateArgs(args))
     ELSE /\ pc' = "BuildNTuples"
          /\ called' = TRUE
          /\ UNCHANGED <<exitcode, out, tuples, allocs, engineVars, rq, ret, ptriplesVars, heapVars>>

PrintTuples ==
  /\ pc = "print"
  /\ out' = [k \in 1..Len(tuples) |-> <<tuples[k].a, tuples[k].b>>]
  /\ exitcode' = 0
  /\ pc' = "exit"
  /\ UNCHANGED <<args, DoOnlyPrimitives, called, tuples, allocs, engineVars, rq, ret, ptriplesVars, heapVars>>

(***************************************************************************)
(* ptuples BuildNTuples: the odometer over the square lookup.              *)
(***************************************************************************)
b_min_sqr == b_min * b_min
b_max_sqr == b_max * b_max
numsqrs == b_max - 1
numtumblers == N - 1
lasttumbler == numtumblers - 1

\* sqrs[k]: k*k stored at k-1; outside the block, whatever the memory holds
sqrs(k) == IF 0 <= k /\ k < numsqrs THEN (k + 1) * (k + 1) ELSE oob[k]

\* long compared with unsigned long: a negative index converts to a huge value
UGe(x, n) == x < 0 \/ x >= n

\* lines 177-181: subtotals of the tumblers from k up to the one before the last
RECURSIVE FillSubtotals(_, _, _)
FillSubtotals(k, sub, idx) ==
  IF k >= lasttumbler THEN sub
  ELSE FillSubtotals(k + 1,
         [sub EXCEPT ![k] = sqrs(idx[k]) + (IF k > 0 THEN sub[k - 1] ELSE 0)], idx)

\* faulty variant: the skip-ahead without the step back by one
SkipAhead_NoMargin(cur, prefix) ==
  IF cur # 0 THEN cur
  ELSE LET tempZ == b_min_sqr - prefix
       IN IF tempZ < 1 THEN cur
          ELSE LET sqrindex == mpz_sqrt(tempZ)
               IN IF sqrindex >= numsqrs THEN numsqrs - 1 ELSE sqrindex

\* lines 187-205: the index the last tumbler starts from
SkipAhead(cur, prefix) ==
  IF cur # 0 THEN cur
  ELSE LET tempZ == b_min_sqr - prefix
       IN IF tempZ < 1 THEN cur
          ELSE LET r == mpz_sqrt(tempZ)
                   sqrindex == IF r > 0 THEN r - 1 ELSE r
               IN IF sqrindex >= numsqrs THEN numsqrs - 1 ELSE sqrindex

\* faulty variant: the index stored instead of the value index + 1
SaveToTuple_IndexAsValue(the_table, idx, bsqr, ptr) ==
  MovePTuple(the_table,
             [k \in 1..numtumblers |-> idx[k - 1]],
             ptr, numtumblers, mpz_sqrt(bsqr))

SaveToTuple(the_table, idx, bsqr, ptr) ==
  MovePTuple(the_table,
             [k \in 1..numtumblers |-> idx[k - 1] + 1],
             ptr, numtumblers, mpz_sqrt(bsqr))

\* faulty variant: the carry tests the total of the last tumbler instead of
\* the subtotal of the tumbler it has moved to
RECURSIVE Carry_TestsTotal(_, _, _)
Carry_TestsTotal(k, idx, sub) ==
  IF k >= 0 /\ UGe(idx[k], numsqrs)
  THEN LET idx0 == [idx EXCEPT ![k] = 0]
       IN IF k - 1 >= 0
          THEN Carry_TestsTotal(k - 1,
                     [idx0 EXCEPT ![k - 1] =
                        IF sub[lasttumbler] > b_max_sqr THEN numsqrs ELSE @ + 1],
                     sub)
          ELSE [i |-> k - 1, idx |-> idx0]
  ELSE [i |-> k, idx |-> idx]

\* faulty variant: the carry resets a tumbler without advancing the one before it
RECURSIVE Carry_NoAdvance(_, _, _)
Carry_NoAdvance(k, idx, sub) ==
  IF k >= 0 /\ UGe(idx[k], numsqrs)
  THEN LET idx0 == [idx EXCEPT ![k] = 0]
       IN IF k - 1 >= 0
          THEN Carry_NoAdvance(k - 1,
                     [idx0 EXCEPT ![k - 1] =
                        IF sub[k - 1] > b_max_sqr THEN numsqrs ELSE @],
                     sub)
          ELSE [i |-> k - 1, idx |-> idx0]
  ELSE [i |-> k, idx |-> idx]

\* lines 219-228: [i, idx] after the carry
RECURSIVE Carry(_, _, _)
Carry(k, idx, sub) ==
  IF k >= 0 /\ UGe(idx[k], numsqrs)
  THEN LET idx0 == [idx EXCEPT ![k] = 0]
       IN IF k - 1 >= 0
          THEN Carry(k - 1,
                     [idx0 EXCEPT ![k - 1] =
                        IF sub[k - 1] > b_max_sqr THEN numsqrs ELSE @ + 1],
                     sub)
          ELSE [i |-> k - 1, idx |-> idx0]
  ELSE [i |-> k, idx |-> idx]

PtBuildStart ==
  /\ pc = "BuildNTuples" /\ args.prog = "ptuples" /\ Runnable
  /\ i' = 0
  /\ sqrindextumbler' = [k \in 0..numtumblers - 1 |-> 0]
  /\ subtotaltumbler' = [k \in 0..numtumblers - 1 |-> 0]
  /\ tmp_table' = <<>>
  /\ \E g \in [{-1, 0} -> 0..MaxGarbage] :
        oob' = IF numsqrs = 0 THEN g ELSE [k \in {-1, 0} |-> 0]
  /\ pc' = "enum"
  /\ UNCHANGED <<args, DoOnlyPrimitives, exitcode, called, out, tuples, allocs,
                 threetuple, onesmaller_table, beingbuilt_table, tsize, gi, gj, b3n, rq, ret, ptriplesVars, heapVars>>

\* one pass of the outer loop, lines 176-229
PtEnumStep ==
  /\ pc = "enum" /\ i >= 0
  /\ LET sub1 == FillSubtotals(i, subtotaltumbler, sqrindextumbler)
         last == lasttumbler
         idx1 == [sqrindextumbler EXCEPT ![last] = SkipAhead(@, sub1[last - 1])]
         total == sub1[last - 1] + sqrs(idx1[last])
         sub2 == [sub1 EXCEPT ![last] = total]
         islessthan_b_min == total < b_min_sqr
         isgreaterthan_b_max == total > b_max_sqr
         save == ~(islessthan_b_min \/ isgreaterthan_b_max) /\ mpz_perfect_square_p(total)
         idx2 == [idx1 EXCEPT ![last] = IF isgreaterthan_b_max THEN numsqrs ELSE @ + 1]
         c == Carry(last, idx2, sub2)
     IN /\ tmp_table' = IF save THEN SaveToTuple(tmp_table, idx1, total, allocs + 1)
                        ELSE tmp_table
        /\ allocs' = IF save THEN allocs + 1 ELSE allocs
        /\ i' = c.i
        /\ sqrindextumbler' = c.idx
        /\ subtotaltumbler' = sub2
        /\ pc' = IF c.i >= 0 THEN "enum" ELSE "RemDupTuples"
  /\ UNCHANGED <<args, DoOnlyPrimitives, exitcode, called, out, tuples, oob,
                 threetuple, onesmaller_table, beingbuilt_table, tsize, gi, gj, b3n, rq, ret, ptriplesVars, heapVars>>

PtRemDup ==
  /\ pc = "RemDupTuples" /\ args.prog = "ptuples"
  /\ \E stable \in BOOLEAN :
       /\ tmp_table' = PtRemDupTuples(tmp_table, stable)
       /\ freed' = freed \o PtRemDupFreed(tmp_table, stable)
  /\ pc' = "move"
  /\ UNCHANGED <<args, DoOnlyPrimitives, exitcode, called, out, tuples, allocs, oob,
                 i, sqrindextumbler, subtotaltumbler,
                 threetuple, onesmaller_table, beingbuilt_table, tsize, gi, gj, b3n, rq, ret, ptriplesVars>>

\* lines 233-244: move to final_table, then Cleanup_ttable( &tmp_table )
PtMove ==
  /\ pc = "move" /\ args.prog = "ptuples"
  /\ tuples' = MoveToFinal(tuples, tmp_table, DoOnlyPrimitives)
  /\ tmp_table' = Cleanup_ttable(MovedOut(tmp_table, DoOnlyPrimitives)).the_ttable
  /\ freed' = freed \o Cleanup_ttable(MovedOut(tmp_table, DoOnlyPrimitives)).avectors
  /\ pc' = "print"
  /\ UNCHANGED <<args, DoOnlyPrimitives, exitcode, called, out, allocs, oob,
                 i, sqrindextumbler, subtotaltumbler,
                 threetuple, onesmaller_table, beingbuilt_table, tsize, gi, gj, b3n, rq, ret, ptriplesVars>>

(***************************************************************************)
(* qkptuples: Build3Tuples (Euclid's formula) and AddPTriple.              *)
(* base is the storage id before the first allocation; the destination     *)
(* table is empty at every call site, so entry k gets id base + k.         *)
(***************************************************************************)
AddPTriple(the_ttable, a_0, a_1, b, base) ==
  MovePTuple(the_ttable, <<a_0, a_1>>, base + Len(the_ttable) + 1, 2, b)

\* lines 362-373: the multiples k*(a,b,c): k runs from b_min / c while
\* k*c <= b_max, and those with k*c < b_min are passed over
B3Multiples(tbl, a, b, c, bmin, bmax, base) ==
  LET k0 == bmin \div c
      ks == SelectSeq([t \in 1..((bmax \div c) - k0 + 1) |-> k0 + t - 1],
                      LAMBDA k : ~(c * k < bmin))
  IN tbl \o [t \in 1..Len(ks) |->
               NewEntry(<<a * ks[t], b * ks[t]>>, base + Len(tbl) + t, 2, c * ks[t])]

\* lines 336-375: the loop over m for one n
RECURSIVE B3LoopM(_, _, _, _, _, _, _, _, _)
B3LoopM(tbl, n, m, m_max, prim, working_b_min, bmin, bmax, base) ==
  IF m > m_max THEN tbl
  ELSE LET a == m * m - n * n
           b == 2 * (m * n)
           c == m * m + n * n
           next == IF mpz_gcd(m, n) # 1 THEN tbl
                   ELSE IF c < working_b_min THEN tbl
                   ELSE IF c > bmax THEN tbl
                   ELSE IF prim = 1 THEN AddPTriple(tbl, a, b, c, base)
                   ELSE B3Multiples(tbl, a, b, c, bmin, bmax, base)
       IN B3LoopM(next, n, m + 2, m_max, prim, working_b_min, bmin, bmax, base)

\* lines 271-275
B3NMax(bmax) == mpz_sqrt((bmax + 1) \div 2)

\* faulty variant: the first m keeps the parity of n
B3LoopN_SameParity(tbl, n, prim, bmin, bmax, base) ==
  LET working_b_min == IF prim = 1 THEN bmin ELSE 1
      n_squared == n * n
      d_min == working_b_min - n_squared
      m_min == mpz_sqrt(IF d_min < 1 THEN 1 ELSE d_min) - 1
      d_max == bmax - n_squared
      m_max == mpz_sqrt(IF d_max < 1 THEN 1 ELSE d_max)
      m == IF n < m_min THEN m_min ELSE n + 1
  IN B3LoopM(tbl, n, m, m_max, prim, working_b_min, bmin, bmax, base)

\* lines 307-375: one pass of the loop over n
B3LoopN(tbl, n, prim, bmin, bmax, base) ==
  LET working_b_min == IF prim = 1 THEN bmin ELSE 1
      n_squared == n * n
      d_min == working_b_min - n_squared
      m_min == mpz_sqrt(IF d_min < 1 THEN 1 ELSE d_min) - 1
      d_max == bmax - n_squared
      m_max == mpz_sqrt(IF d_max < 1 THEN 1 ELSE d_max)
      m == IF n < m_min
           THEN (IF (m_min - n) % 2 = 0 THEN m_min + 1 ELSE m_min)
           ELSE n + 1
  IN B3LoopM(tbl, n, m, m_max, prim, working_b_min, bmin, bmax, base)

(***************************************************************************)
(* qkptuples: GetFirstBIndex.  bsearch may return any element that         *)
(* compares equal; found is its index, -1 for NULL.                        *)
(***************************************************************************)
Bsearch(the_table, B) ==
  LET hits == {k \in 0..Len(the_table) - 1 :
                 ttable_tentry_Bonly_cmpfunc([b |-> B], the_table[k + 1]) = 0}
  IN IF hits = {} THEN {-1} ELSE hits

RECURSIVE ScanBack(_, _, _)
ScanBack(the_table, B, index) ==
  IF index > 1 /\ mpz_cmp(the_table[index].b, B) = 0
  THEN ScanBack(the_table, B, index - 1)
  ELSE index

GetFirstBIndex(the_table, B, found) ==
  IF found # -1 THEN ScanBack(the_table, B, found) ELSE -1

(***************************************************************************)
(* qkptuples BuildNTuples.                                                 *)
(***************************************************************************)
\* lines 166-173: copies of the triples with b >= b_min, each stored by
\* MovePTuple in turn
SeedOneSmaller(three, base) ==
  LET kept == SelectSeq(three, LAMBDA e : mpz_cmp(e.b, b_min) >= 0)
  IN [k \in 1..Len(kept) |-> NewEntry(kept[k].a, base + k, 2, kept[k].b)]

\* lines 193-216: the do-while over the run of triples whose b equals a[j];
\* three is threetuple, new_acount is tsize - 1
RECURSIVE Substitute(_, _, _, _, _, _, _)
Substitute(tbl, e, j, index, base, three, new_acount) ==
  LET t3 == three[index + 1]
      avalues == [k \in 1..new_acount |->
                    IF k - 1 < j THEN e.a[k]
                    ELSE IF k - 1 = j THEN t3.a[1]
                    ELSE IF k - 1 = j + 1 THEN t3.a[2]
                    ELSE e.a[k - 1]]
      tbl1 == MovePTuple(tbl, avalues, base + Len(tbl) + 1, new_acount, e.b)
  IN IF index + 1 < Len(three)
        /\ mpz_cmp(e.a[j + 1], three[index + 2].b) = 0
     THEN Substitute(tbl1, e, j, index + 1, base, three, new_acount)
     ELSE tbl1

\* the arguments of the one Build3Tuples call of a run: lines 142 and 154
B3Prim == IF N = 3 THEN DoOnlyPrimitives ELSE 0
B3Min == IF N = 3 THEN b_min ELSE 5

QkBuild3Call ==
  /\ pc = "BuildNTuples" /\ args.prog = "qkptuples" /\ Runnable
  /\ b3n' = 1
  /\ pc' = "Build3Tuples"
  /\ UNCHANGED <<args, DoOnlyPrimitives, exitcode, called, out, tuples, allocs, oob,
                 i, sqrindextumbler, subtotaltumbler, tmp_table,
                 threetuple, onesmaller_table, beingbuilt_table, tsize, gi, gj, rq, ret, ptriplesVars, heapVars>>

\* Build3Tuples, one n: into tuples when N = 3, into threetuple otherwise
B3Step ==
  /\ pc = "Build3Tuples" /\ b3n <= B3NMax(b_max)
  /\ LET dest == IF N = 3 THEN tuples ELSE threetuple
         built == B3LoopN(dest, b3n, B3Prim, B3Min, b_max, allocs - Len(dest))
     IN /\ IF N = 3
           THEN tuples' = built /\ UNCHANGED threetuple
           ELSE threetuple' = built /\ UNCHANGED tuples
        /\ allocs' = allocs + (Len(built) - Len(dest))
  /\ b3n' = b3n + 1
  /\ UNCHANGED <<pc, args, DoOnlyPrimitives, exitcode, called, out, oob,
                 i, sqrindextumbler, subtotaltumbler, tmp_table,
                 onesmaller_table, beingbuilt_table, tsize, gi, gj, rq, ret, ptriplesVars, heapVars>>

\* lines 141-145
QkSort3 ==
  /\ pc = "Build3Tuples" /\ b3n > B3NMax(b_max) /\ N = 3
  /\ \E stable \in BOOLEAN : tuples' = QsortTable(tuples, stable)
  /\ pc' = "print"
  /\ UNCHANGED <<args, DoOnlyPrimitives, exitcode, called, out, allocs, engineVars,
                 rq, ret, ptriplesVars, heapVars>>

\* lines 155-173
QkSetup ==
  /\ pc = "Build3Tuples" /\ b3n > B3NMax(b_max) /\ N # 3
  /\ \E stable \in BOOLEAN :
       LET sorted == QsortTable(threetuple, stable)
           seed == SeedOneSmaller(sorted, allocs)
       IN /\ threetuple' = sorted
          /\ onesmaller_table' = seed
          /\ allocs' = allocs + Len(seed)
  /\ beingbuilt_table' = <<>>
  /\ tsize' = 4
  /\ gi' = 0
  /\ gj' = 0
  /\ pc' = "grow"
  /\ UNCHANGED <<args, DoOnlyPrimitives, exitcode, called, out, tuples, oob,
                 i, sqrindextumbler, subtotaltumbler, tmp_table, b3n, rq, ret, ptriplesVars, heapVars>>

\* lines 190-218 for one (i, j)
QkGrowStep ==
  /\ pc = "grow" /\ gi < Len(onesmaller_table)
  /\ LET e == onesmaller_table[gi + 1]
     IN /\ \E found \in Bsearch(threetuple, e.a[gj + 1]) :
             LET index == GetFirstBIndex(threetuple, e.a[gj + 1], found)
                 grown == IF index >= 0
                          THEN Substitute(beingbuilt_table, e, gj, index,
                                          allocs - Len(beingbuilt_table),
                                          threetuple, tsize - 1)
                          ELSE beingbuilt_table
             IN /\ beingbuilt_table' = grown
                /\ allocs' = allocs + (Len(grown) - Len(beingbuilt_table))
        /\ IF gj + 1 < e.a_count
           THEN gj' = gj + 1 /\ gi' = gi
           ELSE gj' = 0 /\ gi' = gi + 1
  /\ UNCHANGED <<pc, args, DoOnlyPrimitives, exitcode, called, out, tuples, oob,
                 i, sqrindextumbler, subtotaltumbler, tmp_table,
                 threetuple, onesmaller_table, tsize, b3n, rq, ret, ptriplesVars, heapVars>>

\* line 221, and lines 177-186 of the next pass
QkStageEnd ==
  /\ pc = "grow" /\ gi >= Len(onesmaller_table)
  /\ \E stable \in BOOLEAN :
       LET deduped == QkRemDupTuples(beingbuilt_table, stable)
           dropped == QkRemDupFreed(beingbuilt_table, stable)
       IN IF tsize + 1 <= N
          THEN /\ onesmaller_table' = deduped
               /\ beingbuilt_table' = <<>>
               /\ freed' = freed \o dropped \o Cleanup_ttable(onesmaller_table).avectors
               /\ pc' = "grow"
          ELSE /\ beingbuilt_table' = deduped
               /\ onesmaller_table' = onesmaller_table
               /\ freed' = freed \o dropped
               /\ pc' = "move"
  /\ tsize' = tsize + 1
  /\ gi' = 0
  /\ gj' = 0
  /\ UNCHANGED <<args, DoOnlyPrimitives, exitcode, called, out, tuples, allocs, oob,
                 i, sqrindextumbler, subtotaltumbler, tmp_table, threetuple, b3n, rq, ret, ptriplesVars>>

\* lines 224-240
QkMove ==
  /\ pc = "move" /\ args.prog = "qkptuples"
  /\ \E stable \in BOOLEAN :
       tuples' = QsortTable(MoveToFinal(tuples, beingbuilt_table, DoOnlyPrimitives), stable)
  /\ threetuple' = Cleanup_ttable(threetuple).the_ttable
  /\ beingbuilt_table' = Cleanup_ttable(MovedOut(beingbuilt_table, DoOnlyPrimitives)).the_ttable
  /\ freed' = freed \o Cleanup_ttable(threetuple).avectors
                     \o Cleanup_ttable(MovedOut(beingbuilt_table, DoOnlyPrimitives)).avectors
  /\ pc' = "print"
  /\ UNCHANGED <<args, DoOnlyPrimitives, exitcode, called, out, allocs, oob,
                 i, sqrindextumbler, subtotaltumbler, tmp_table,
                 onesmaller_table, tsize, gi, gj, b3n, rq, ret, ptriplesVars>>

(***************************************************************************)
(* The programs: one run per command line.                                 *)
(***************************************************************************)
BArgs(prog) ==
  {Small(k) : k \in 0..(IF prog = "ptuples" THEN MaxB ELSE MaxBq)}
    \cup {MAXB, <<Limb - 1, Limb - 1>>}

CmdLine(prog, argc, argv1, size, bmin, bmax) ==
  [prog |-> prog, argc |-> argc, argv1 |-> argv1, tuple_size |-> size,
   b_min |-> bmin, b_max |-> bmax]

\* argv1 is argv[1]: with three arguments it is the tuple size ("n"), with
\* four it is "-p" or something else ("-x")
GridInputs ==
  UNION {
    {CmdLine(prog, f[1], f[2], size, bmin, bmax) :
        f \in {<<4, "n">>, <<5, "-p">>, <<5, "-x">>},
        size \in 2..MaxN, bmin \in BArgs(prog), bmax \in BArgs(prog)} :
    prog \in {"ptuples", "qkptuples"}}

ArgcInputs ==
  {CmdLine(prog, argc, "n", 3, Small(1), Small(5)) :
      prog \in {"ptuples", "qkptuples"}, argc \in {1, 3, 6}}

\* the runs the specification and the algorithm comment name, and runs of
\* qkptuples large enough for a hypotenuse shared by two triples (25) to be
\* a leg ((25,60,65))
ExampleInputs ==
  { CmdLine("ptuples", 4, "n", 3, Small(1), Small(25)),
    CmdLine("ptuples", 4, "n", 4, Small(1), Small(3)),
    CmdLine("qkptuples", 4, "n", 3, Small(1), Small(25)),
    CmdLine("qkptuples", 4, "n", 4, Small(1), Small(3)),
    CmdLine("qkptuples", 4, "n", 4, Small(1), Small(65)),
    CmdLine("qkptuples", 5, "-p", 4, Small(1), Small(65)),
    CmdLine("qkptuples", 4, "n", 5, Small(60), Small(65)) }

Inputs == GridInputs \cup ArgcInputs \cup ExampleInputs

InitEngine ==
  /\ oob = [k \in {-1, 0} |-> 0]
  /\ i = 0
  /\ sqrindextumbler = <<>>
  /\ subtotaltumbler = <<>>
  /\ tmp_table = <<>>
  /\ threetuple = <<>>
  /\ onesmaller_table = <<>>
  /\ beingbuilt_table = <<>>
  /\ tsize = 0
  /\ gi = 0
  /\ gj = 0

InitHeap == freed = <<>>

InitPtriples ==
  /\ triples = <<>>
  /\ pn = 0
  /\ pout = <<>>
  /\ pexit = -1

Init ==
  /\ pc = "main"
  /\ args \in Inputs
  /\ DoOnlyPrimitives = 0
  /\ exitcode = -1
  /\ called = FALSE
  /\ out = <<>>
  /\ tuples = <<>>
  /\ allocs = 0
  /\ InitEngine
  /\ b3n = 0
  /\ rq = <<>>
  /\ ret = 0
  /\ InitPtriples
  /\ InitHeap

Next ==
  \/ Main
  \/ PtBuildStart
  \/ PtEnumStep
  \/ PtRemDup
  \/ PtMove
  \/ QkBuild3Call
  \/ B3Step
  \/ QkSort3
  \/ QkSetup
  \/ QkGrowStep
  \/ QkStageEnd
  \/ QkMove
  \/ PrintTuples

Spec == Init /\ [][Next]_vars

(***************************************************************************)
(* Unit runs: one call of TupleIsPrimitive, one call of RemDupTuples.      *)
(***************************************************************************)
UnitIdle ==
  /\ args = CmdLine("unit", 0, "n", 0, Small(0), Small(0))
  /\ DoOnlyPrimitives = 0
  /\ exitcode = -1
  /\ called = FALSE
  /\ out = <<>>
  /\ tuples = <<>>
  /\ allocs = 0
  /\ InitEngine
  /\ b3n = 0
  /\ InitPtriples
  /\ InitHeap

unitVars == <<args, DoOnlyPrimitives, exitcode, called, out, tuples, allocs, engineVars,
              ptriplesVars, heapVars>>

\* vectors of 2..MaxCount positive values with any positive b, and the two
\* vectors the documentation names
PrimInputs ==
  {[avalues |-> a, b |-> b, acount |-> Len(a)] :
      a \in UNION {[1..n -> 1..MaxVal] : n \in 2..MaxCount}, b \in 1..MaxVal}
    \cup {[avalues |-> <<3, 4>>, b |-> 5, acount |-> 2],
          [avalues |-> <<6, 8>>, b |-> 10, acount |-> 2]}

InitPrim ==
  /\ pc = "call TupleIsPrimitive"
  /\ rq \in PrimInputs
  /\ ret = -1
  /\ UnitIdle

CallTupleIsPrimitive ==
  /\ pc = "call TupleIsPrimitive"
  /\ ret' = TupleIsPrimitive(rq.avalues, rq.b, rq.acount)
  /\ pc' = "returned"
  /\ UNCHANGED <<rq, unitVars>>

NextPrim == CallTupleIsPrimitive

SpecPrim == InitPrim /\ [][NextPrim]_vars

\* the entries a table of 4-tuples can hold: ascending a-vectors over
\* 1..MaxA whose squares sum to the square of b
PoolEntries ==
  {[a_count |-> 3, a |-> a, ptr |-> 0, b |-> mpz_sqrt(a[1] * a[1] + a[2] * a[2] + a[3] * a[3])] :
      a \in {v \in [1..3 -> 1..MaxA] :
               /\ v[1] <= v[2] /\ v[2] <= v[3]
               /\ mpz_perfect_square_p(v[1] * v[1] + v[2] * v[2] + v[3] * v[3])}}

\* tables of up to MaxLen entries in any order, each with its own storage
RemDupInputs ==
  UNION {{[k \in 1..n |-> [t[k] EXCEPT !.ptr = k]] : t \in [1..n -> PoolEntries]} :
           n \in 0..MaxLen}

InitRemDup ==
  /\ pc = "call RemDupTuples"
  /\ rq \in [prog : {"ptuples", "qkptuples"}, the_table : RemDupInputs]
  /\ ret = <<>>
  /\ UnitIdle

CallPtRemDupTuples ==
  /\ pc = "call RemDupTuples" /\ rq.prog = "ptuples"
  /\ \E stable \in BOOLEAN : ret' = PtRemDupTuples(rq.the_table, stable)
  /\ pc' = "returned"
  /\ UNCHANGED <<rq, unitVars>>

CallQkRemDupTuples ==
  /\ pc = "call RemDupTuples" /\ rq.prog = "qkptuples"
  /\ \E stable \in BOOLEAN : ret' = QkRemDupTuples(rq.the_table, stable)
  /\ pc' = "returned"
  /\ UNCHANGED <<rq, unitVars>>

NextRemDup == CallPtRemDupTuples \/ CallQkRemDupTuples

SpecRemDup == InitRemDup /\ [][NextRemDup]_vars

(***************************************************************************)
(* Reference runs of the approximate engine: the same code with every      *)
(* qsort stable and bsearch landing on the first match.                    *)
(***************************************************************************)
RECURSIVE RefBuild3Tuples(_, _)
RefBuild3Tuples(tbl, n) ==
  IF n > B3NMax(b_max) THEN tbl
  ELSE RefBuild3Tuples(B3LoopN(tbl, n, B3Prim, B3Min, b_max, 0), n + 1)

RECURSIVE RefGrow(_, _, _, _, _, _)
RefGrow(tbl, prev, ri, rj, three, ts) ==
  IF ri >= Len(prev) THEN tbl
  ELSE LET e == prev[ri + 1]
           hits == Bsearch(three, e.a[rj + 1])
           found == CHOOSE h \in hits : \A g \in hits : h <= g
           index == GetFirstBIndex(three, e.a[rj + 1], found)
           grown == IF index >= 0
                    THEN Substitute(tbl, e, rj, index, 0, three, ts - 1)
                    ELSE tbl
       IN IF rj + 1 < e.a_count
          THEN RefGrow(grown, prev, ri, rj + 1, three, ts)
          ELSE RefGrow(grown, prev, ri + 1, 0, three, ts)

RECURSIVE RefStages(_, _, _)
RefStages(prev, three, ts) ==
  IF ts > N THEN prev
  ELSE RefStages(QkRemDupTuples(RefGrow(<<>>, prev, 0, 0, three, ts), TRUE), three, ts + 1)

RefBuildNTuples ==
  IF N = 3 THEN QsortTable(RefBuild3Tuples(<<>>, 1), TRUE)
  ELSE LET three == QsortTable(RefBuild3Tuples(<<>>, 1), TRUE)
           last == RefStages(SeedOneSmaller(three, 0), three, 4)
       IN QsortTable(MoveToFinal(<<>>, last, DoOnlyPrimitives), TRUE)

(***************************************************************************)
(* The vocabulary of the properties.                                       *)
(***************************************************************************)
\* BuildNTuples has returned its table to main
Returned == called /\ pc \in {"print", "exit"}

Lines(t) == [k \in 1..Len(t) |-> <<t[k].a, t[k].b>>]
Entries(t) == {<<t[k].a, t[k].b>> : k \in 1..Len(t)}

RECURSIVE SumOfSquares(_)
SumOfSquares(a) == IF a = <<>> THEN 0 ELSE Head(a) * Head(a) + SumOfSquares(Tail(a))

\* gcd(a_1, ..., a_n, b) = 1, for b >= 1
Coprime(a, b) ==
  ~ \E d \in 2..b : b % d = 0 /\ \A k \in 1..Len(a) : a[k] % d = 0

Ascending(a) == \A k \in 1..Len(a) - 1 : a[k] <= a[k + 1]

\* every ascending vector of n - 1 positive integers whose squares sum to
\* b * b for a b in lo..hi, with its b
AllTuples(n, lo, hi, prim) ==
  {t \in {a \in [1..n - 1 -> 1..hi] : Ascending(a)} \X (lo..hi) :
     /\ SumOfSquares(t[1]) = t[2] * t[2]
     /\ prim = 1 => Coprime(t[1], t[2])}

LexBefore(a1, a2) ==
  \E k \in 1..Len(a1) : a1[k] < a2[k] /\ \A j \in 1..k - 1 : a1[j] = a2[j]

\* line <<a, b>> comes strictly before line <<a2, b2>> in the canonical order
LineBefore(l1, l2) == l1[2] < l2[2] \/ (l1[2] = l2[2] /\ LexBefore(l1[1], l2[1]))

Canonical(ls) ==
  \A k \in 1..Len(ls) - 1 : LineBefore(ls[k], ls[k + 1]) \/ ls[k] = ls[k + 1]

\* the lines of a set in canonical order
CanonicalSeq(S) ==
  [k \in 1..Cardinality(S) |->
     CHOOSE l \in S : Cardinality({m \in S : LineBefore(m, l)}) = k - 1]

\* one limb pair below another
Below(x, y) == x[1] < y[1] \/ (x[1] = y[1] /\ x[2] < y[2])

\* the command lines the documentation rejects
Rejected ==
  \/ args.argc \notin {4, 5}
  \/ args.tuple_size < 3
  \/ Below(args.b_min, <<0, 1>>)
  \/ Below(args.b_max, args.b_min)
  \/ args.prog = "ptuples" /\ Below(<<Limb - 1, Limb - 2>>, args.b_max)

(***************************************************************************)
(* Properties of the programs.                                             *)
(***************************************************************************)
SoundEntry(e) ==
  /\ e.a_count = N - 1
  /\ Len(e.a) = N - 1
  /\ \A k \in 1..Len(e.a) : e.a[k] >= 1
  /\ SumOfSquares(e.a) = e.b * e.b
  /\ b_min <= e.b /\ e.b <= b_max

C1_SoundWithLookup ==
  Returned /\ (args.prog = "ptuples" => b_max >= 2)
    => \A k \in 1..Len(tuples) : SoundEntry(tuples[k])

\* C2: exhaustive completeness.  With b_max >= 2 the table ptuples returns
\* holds exactly the ascending vectors of N-1 positive integers whose squares
\* sum to b*b for a b in [b_min, b_max] (those with gcd 1 under -p), each
\* once; N = 3 over [1,25] without -p gives the eight known triples and
\* N = 4 over [1,3] gives (1,2,2,3).
C2_ExhaustiveComplete ==
  Returned /\ args.prog = "ptuples" /\ b_max >= 2 =>
    /\ Entries(tuples) = AllTuples(N, b_min, b_max, DoOnlyPrimitives)
    /\ Len(tuples) = Cardinality(Entries(tuples))
    /\ N = 3 /\ b_min = 1 /\ b_max = 25 /\ DoOnlyPrimitives = 0 =>
         Entries(tuples) =
           {<<<<3, 4>>, 5>>, <<<<6, 8>>, 10>>, <<<<5, 12>>, 13>>, <<<<9, 12>>, 15>>,
            <<<<8, 15>>, 17>>, <<<<12, 16>>, 20>>, <<<<7, 24>>, 25>>, <<<<15, 20>>, 25>>}
    /\ N = 4 /\ b_min = 1 /\ b_max = 3 => Entries(tuples) = {<<<<1, 2, 2>>, 3>>}

C2_Witness ==
  /\ Returned /\ args.prog = "ptuples"
  /\ N = 3 /\ b_min = 1 /\ b_max = 25 /\ DoOnlyPrimitives = 0
  /\ Len(tuples) = 8

\* C3: no duplicates.  Whichever engine ran, no two entries of the returned
\* table have pointwise-equal a-vectors, also for qkptuples with N = 3.
C3_NoDuplicates ==
  Returned =>
    \A k \in 1..Len(tuples) : \A l \in 1..Len(tuples) :
       k # l => tuples[k].a # tuples[l].a

C3_Witness ==
  /\ Returned /\ args.prog = "qkptuples" /\ N = 3 /\ DoOnlyPrimitives = 0
  /\ \E k \in 1..Len(tuples) : \E l \in 1..Len(tuples) :
       tuples[k].b = tuples[l].b /\ tuples[k].a # tuples[l].a

\* C4: canonical output order.  The returned table, and so the lines in the
\* order they are printed, is sorted by b ascending and among equal b by
\* a-vector lexicographically ascending.
C4_CanonicalOrder ==
  /\ Returned => Canonical(Lines(tuples))
  /\ pc = "exit" /\ exitcode = 0 => out = Lines(tuples) /\ Canonical(out)

C4_Witness ==
  /\ pc = "exit" /\ exitcode = 0
  /\ \E k \in 1..Len(out) - 1 : out[k][2] = out[k + 1][2] /\ out[k] # out[k + 1]

\* C5: primitivity of the output.  Under -p every entry of the returned table
\* of either engine has gcd(a_1, ..., a_{N-1}, b) = 1, also for qkptuples
\* with N = 3, where TupleIsPrimitive is not called.
C5_PrimitiveOutput ==
  Returned /\ DoOnlyPrimitives = 1 =>
    \A k \in 1..Len(tuples) : Coprime(tuples[k].a, tuples[k].b)

C5_Witness ==
  /\ Returned /\ DoOnlyPrimitives = 1
  /\ args.prog = "qkptuples" /\ N = 4 /\ b_max = 65
  /\ Len(tuples) >= 2

\* C6: the documented gap.  With N = 4 and b_min <= 3 <= b_max qkptuples
\* never returns (1,2,2,3), and ptuples returns it for the same input.
C6_Gap ==
  Returned /\ N = 4 /\ b_min <= 3 /\ 3 <= b_max =>
    IF args.prog = "qkptuples"
    THEN <<<<1, 2, 2>>, 3>> \notin Entries(tuples)
    ELSE <<<<1, 2, 2>>, 3>> \in Entries(tuples)

C6_Witness ==
  /\ Returned /\ args.prog = "qkptuples" /\ N = 4 /\ b_min <= 3 /\ 3 <= b_max
  /\ Len(tuples) >= 1

C8_DeterminismWithLookup ==
  pc = "exit" /\ exitcode = 0 /\ (args.prog = "ptuples" => b_max >= 2) =>
    out = IF args.prog = "ptuples"
          THEN CanonicalSeq(AllTuples(N, b_min, b_max, DoOnlyPrimitives))
          ELSE Lines(RefBuildNTuples)

\* C9: TupleIsPrimitive with acount >= 2 and positive values returns 1 if and
\* only if gcd(avalues[0], ..., avalues[acount-1], b) = 1, whether or not the
\* vector is a Pythagorean tuple; 1 for (3,4;5) and 0 for (6,8;10).
C9_TupleIsPrimitive ==
  pc = "returned" =>
    /\ ret \in {0, 1}
    /\ ret = 1 <=> Coprime(rq.avalues, rq.b)
    /\ rq.avalues = <<3, 4>> /\ rq.b = 5 => ret = 1
    /\ rq.avalues = <<6, 8>> /\ rq.b = 10 => ret = 0

\* the running gcd is above 1 after all a-values and b brings it to 1
C9_Witness ==
  /\ pc = "returned" /\ ret = 1
  /\ rq.acount = 3
  /\ \E d \in 2..MaxVal : \A k \in 1..3 : rq.avalues[k] % d = 0

\* C10: RemDupTuples of qkptuples.  After the call the table is canonically
\* sorted, holds entries of the table it was given, no a-vector twice, and
\* the set of distinct a-vectors is the one before the call.
C10_QkRemDupTuples ==
  pc = "returned" /\ rq.prog = "qkptuples" =>
    /\ Canonical(Lines(ret))
    /\ \A k \in 1..Len(ret) : \E l \in 1..Len(rq.the_table) : ret[k] = rq.the_table[l]
    /\ \A k \in 1..Len(ret) : \A l \in 1..Len(ret) : k # l => ret[k].a # ret[l].a
    /\ {ret[k].a : k \in 1..Len(ret)} = {rq.the_table[k].a : k \in 1..Len(rq.the_table)}

\* C11: RemDupTuples of ptuples.  After the call the table is canonically
\* sorted and holds exactly one entry, an entry of the table it was given,
\* for each distinct a-vector that was present: none is lost, none repeated.
C11_PtRemDupTuples ==
  pc = "returned" /\ rq.prog = "ptuples" =>
    /\ Canonical(Lines(ret))
    /\ \A k \in 1..Len(ret) : \E l \in 1..Len(rq.the_table) : ret[k] = rq.the_table[l]
    /\ \A k \in 1..Len(ret) : \A l \in 1..Len(ret) : k # l => ret[k].a # ret[l].a
    /\ {ret[k].a : k \in 1..Len(ret)} = {rq.the_table[k].a : k \in 1..Len(rq.the_table)}

\* a run of three equal entries collapsed into one
C11_Witness ==
  /\ pc = "returned" /\ rq.prog = "ptuples"
  /\ Len(rq.the_table) = 3 /\ Len(ret) = 1

\* the tables a program holds
AllTables == <<tuples, tmp_table, threetuple, onesmaller_table, beingbuilt_table>>

\* C12: canonical entry form.  At every point of either program, every entry
\* held by any table has its a-vector in non-decreasing order, whatever order
\* the a-values were supplied in.
C12_EntriesAscending ==
  \A t \in 1..Len(AllTables) :
    \A k \in 1..Len(AllTables[t]) : Ascending(AllTables[t][k].a)

\* ptuples has stored the same vector twice: it was found in two orders of
\* the tumblers and both entries hold it sorted
C12_Witness ==
  /\ args.prog = "ptuples" /\ pc = "RemDupTuples"
  /\ \E k \in 1..Len(tmp_table) : \E l \in 1..Len(tmp_table) :
       k # l /\ tmp_table[k].a = tmp_table[l].a /\ tmp_table[k].a[1] < tmp_table[k].a[2]

(***************************************************************************)
(* ptriples: Euclid's formula in main, entries [a, b, c] with a < b.       *)
(* Its command line is that of the tuple programs without tuple_size.      *)
(***************************************************************************)
PtriplesAddPTriple(the_ttable, a, b, c) ==
  Append(the_ttable, [a |-> IF mpz_cmp(a, b) < 0 THEN a ELSE b,
                      b |-> IF mpz_cmp(a, b) < 0 THEN b ELSE a,
                      c |-> c])

ttable_entry_cmpfunc(entry1, entry2) ==
  LET cmpval == mpz_cmp(entry1.c, entry2.c)
  IN IF cmpval # 0 THEN cmpval
     ELSE IF mpz_cmp(entry1.b, entry2.b) # 0 THEN mpz_cmp(entry1.b, entry2.b)
     ELSE mpz_cmp(entry1.c, entry2.c)

\* qsort of the table by ttable_entry_cmpfunc; ties as in QsortTable
PtriplesQsort(t, stable) ==
  LET n == Len(t)
      rank == [x \in 1..n |->
                Cardinality({y \in 1..n :
                  LET c == ttable_entry_cmpfunc(t[y], t[x])
                  IN c < 0 \/ (c = 0 /\ IF stable THEN y < x ELSE y > x)})]
  IN [k \in 1..n |-> t[CHOOSE x \in 1..n : rank[x] = k - 1]]

\* faulty variant: k starts one above c_min / c
PtriplesMultiples_SkipFirst(tbl, a, b, c, c_min, c_max) ==
  LET k0 == (c_min \div c) + 1
      ks == SelectSeq([t \in 1..((c_max \div c) - k0 + 1) |-> k0 + t - 1],
                      LAMBDA k : ~(c * k < c_min))
  IN tbl \o [t \in 1..Len(ks) |-> PtriplesAddPTriple(<<>>, a * ks[t], b * ks[t], c * ks[t])[1]]

\* lines 782-793: k runs from c_min / c while k*c <= c_max, and the
\* multiples with k*c < c_min are passed over
PtriplesMultiples(tbl, a, b, c, c_min, c_max) ==
  LET k0 == c_min \div c
      ks == SelectSeq([t \in 1..((c_max \div c) - k0 + 1) |-> k0 + t - 1],
                      LAMBDA k : ~(c * k < c_min))
  IN tbl \o [t \in 1..Len(ks) |-> PtriplesAddPTriple(<<>>, a * ks[t], b * ks[t], c * ks[t])[1]]

\* lines 756-795: the loop over m for one n
RECURSIVE PtriplesLoopM(_, _, _, _, _, _, _, _)
PtriplesLoopM(tbl, n, m, m_max, prim, working_c_min, c_min, c_max) ==
  IF m > m_max THEN tbl
  ELSE LET a == m * m - n * n
           b == 2 * (m * n)
           c == m * m + n * n
           next == IF mpz_gcd(m, n) # 1 THEN tbl
                   ELSE IF c < working_c_min THEN tbl
                   ELSE IF c > c_max THEN tbl
                   ELSE IF prim = 1 THEN PtriplesAddPTriple(tbl, a, b, c)
                   ELSE PtriplesMultiples(tbl, a, b, c, c_min, c_max)
       IN PtriplesLoopM(next, n, m + 2, m_max, prim, working_c_min, c_min, c_max)

\* lines 692-695: mpz_cdiv_q_2exp rounds up
PtriplesNMax(c_max) == mpz_sqrt((c_max + 1) \div 2)

\* lines 726-796: one pass of the loop over n
PtriplesLoopN(tbl, n, prim, c_min, c_max) ==
  LET working_c_min == IF prim = 1 THEN c_min ELSE 1
      n_squared == n * n
      d_min == working_c_min - n_squared
      m_min == mpz_sqrt(IF d_min < 1 THEN 1 ELSE d_min) - 1
      d_max == c_max - n_squared
      m_max == mpz_sqrt(IF d_max < 1 THEN 1 ELSE d_max)
      m == IF n < m_min
           THEN (IF (m_min - n) % 2 = 0 THEN m_min + 1 ELSE m_min)
           ELSE n + 1
  IN PtriplesLoopM(tbl, n, m, m_max, prim, working_c_min, c_min, c_max)

\* the command line of ptriples that goes with args
PtriplesArgc == args.argc - 1
PtriplesPrim == IF PtriplesArgc = 4 /\ args.argv1 = "-p" THEN 1 ELSE 0

\* lines 627-659: the exit code, 0 to go on
PtriplesValidate ==
  IF PtriplesArgc # 3 /\ PtriplesArgc # 4 THEN 1
  ELSE IF mpz_cmp2(args.b_min, Small(1)) < 0 THEN 1
  ELSE IF mpz_cmp2(args.b_min, args.b_max) > 0 THEN 1
  ELSE 0

tupleVars == <<args, DoOnlyPrimitives, exitcode, called, out, tuples, allocs, engineVars,
               rq, ret, heapVars>>

\* ptriples is started on the command line the tuple program has finished
PtriplesMain ==
  /\ pc = "exit"
  /\ IF PtriplesValidate # 0
     THEN /\ pexit' = PtriplesValidate
          /\ pc' = "ptriples exit"
          /\ UNCHANGED <<triples, pn>>
     ELSE /\ triples' = <<>>
          /\ pn' = 1
          /\ pc' = "ptriples"
          /\ UNCHANGED pexit
  /\ UNCHANGED <<pout, tupleVars>>

PtriplesStep ==
  /\ pc = "ptriples" /\ pn <= PtriplesNMax(b_max)
  /\ triples' = PtriplesLoopN(triples, pn, PtriplesPrim, b_min, b_max)
  /\ pn' = pn + 1
  /\ UNCHANGED <<pc, pout, pexit, tupleVars>>

\* lines 803-829
PtriplesPrint ==
  /\ pc = "ptriples" /\ pn > PtriplesNMax(b_max)
  /\ \E stable \in BOOLEAN :
       LET sorted == PtriplesQsort(triples, stable)
       IN pout' = [k \in 1..Len(sorted) |-> <<sorted[k].a, sorted[k].b, sorted[k].c>>]
  /\ triples' = <<>>
  /\ pexit' = 0
  /\ pc' = "ptriples exit"
  /\ UNCHANGED <<pn, tupleVars>>

\* command lines with tuple_size 3 for both runs
TripleInputs ==
  {CmdLine(prog, f[1], f[2], 3, Small(lo), Small(hi)) :
      prog \in {"ptuples", "qkptuples"}, f \in {<<4, "n">>, <<5, "-p">>},
      lo \in 0..MaxT, hi \in 0..MaxT}
    \cup {CmdLine(prog, f[1], f[2], 3, Small(1), Small(25)) :
            prog \in {"ptuples", "qkptuples"}, f \in {<<4, "n">>, <<5, "-p">>, <<3, "n">>}}

InitTriples ==
  /\ pc = "main"
  /\ args \in TripleInputs
  /\ DoOnlyPrimitives = 0
  /\ exitcode = -1
  /\ called = FALSE
  /\ out = <<>>
  /\ tuples = <<>>
  /\ allocs = 0
  /\ InitEngine
  /\ b3n = 0
  /\ rq = <<>>
  /\ ret = 0
  /\ InitPtriples
  /\ InitHeap

NextTriples ==
  \/ Main
  \/ PtBuildStart
  \/ PtEnumStep
  \/ PtRemDup
  \/ PtMove
  \/ QkBuild3Call
  \/ B3Step
  \/ QkSort3
  \/ PrintTuples
  \/ PtriplesMain
  \/ PtriplesStep
  \/ PtriplesPrint

SpecTriples == InitTriples /\ [][NextTriples]_vars

\* the lines of ptriples in the form of the tuple programs
TripleLines == [k \in 1..Len(pout) |-> <<<<pout[k][1], pout[k][2]>>, pout[k][3]>>]

ReplaceLeg(e, j, t) ==
  [k \in 1..Len(e.a) + 1 |->
     IF k < j THEN e.a[k]
     ELSE IF k = j THEN t.a[1]
     ELSE IF k = j + 1 THEN t.a[2]
     ELSE e.a[k - 1]]

Occurrences(v, x) == Cardinality({k \in 1..Len(v) : v[k] = x})

\* the ascending arrangement of v
AscendingForm(v) ==
  CHOOSE w \in [1..Len(v) -> {v[k] : k \in 1..Len(v)}] :
    Ascending(w) /\ \A k \in 1..Len(v) : Occurrences(w, v[k]) = Occurrences(v, v[k])

\* every line obtainable from the table prev and the helper triples three
Obtainable(prev, three) ==
  {<<AscendingForm(ReplaceLeg(prev[p[1]], p[2], three[p[3]])), prev[p[1]].b>> :
     p \in {q \in (1..Len(prev)) \X (1..N) \X (1..Len(three)) :
              q[2] <= Len(prev[q[1]].a) /\ three[q[3]].b = prev[q[1]].a[q[2]]}}

\* the table a growth stage hands on
StageResult == IF pc' = "move" THEN beingbuilt_table' ELSE onesmaller_table'

\* C14: growth stage completeness.  When the stage for arity t of qkptuples
\* finishes, the table it hands on holds exactly once every line obtainable
\* from an entry of the table of arity t-1, a position j and a helper triple
\* whose hypotenuse is a_j, by replacing a_j with the triple's legs.
C14_StageComplete ==
  [][pc = "grow" /\ gi >= Len(onesmaller_table) =>
       /\ Entries(StageResult) = Obtainable(onesmaller_table, threetuple)
       /\ Len(StageResult) = Cardinality(Obtainable(onesmaller_table, threetuple))]_vars

\* C14 before the deduplication: the growth loop itself has built every
\* obtainable line, and nothing else
C14_GrownBeforeDedup ==
  pc = "grow" /\ gi >= Len(onesmaller_table) =>
    Entries(beingbuilt_table) = Obtainable(onesmaller_table, threetuple)

\* C14, as far as the code goes: the stage hands on only obtainable lines,
\* none twice
C14_StageSound ==
  [][pc = "grow" /\ gi >= Len(onesmaller_table) =>
       /\ Entries(StageResult) \subseteq Obtainable(onesmaller_table, threetuple)
       /\ Len(StageResult) = Cardinality(Entries(StageResult))]_vars

(***************************************************************************)
(* Unit runs of Build3Tuples: the state at the call from BuildNTuples of    *)
(* qkptuples with tuple_size 3, then the loop over n.                      *)
(***************************************************************************)
InitBuild3 ==
  /\ pc = "Build3Tuples"
  /\ \E f \in {<<4, "n", 0>>, <<5, "-p", 1>>} : \E lo \in 1..MaxC : \E hi \in lo..MaxC :
       /\ args = CmdLine("qkptuples", f[1], f[2], 3, Small(lo), Small(hi))
       /\ DoOnlyPrimitives = f[3]
  /\ exitcode = -1
  /\ called = TRUE
  /\ out = <<>>
  /\ tuples = <<>>
  /\ allocs = 0
  /\ InitEngine
  /\ b3n = 1
  /\ rq = <<>>
  /\ ret = 0
  /\ InitPtriples
  /\ InitHeap

NextBuild3 == B3Step

SpecBuild3 == InitBuild3 /\ [][NextBuild3]_vars

\* every Pythagorean triple with hypotenuse up to the largest b of any run
PythagoreanTriples ==
  UNION {UNION {{<<<<a, b>>, c>> : b \in {x \in a..c : a * a + x * x = c * c}} :
                  a \in 1..c} :
           c \in 1..65}

\* Build3Tuples has returned: its loop over n is over
Build3Returned == pc = "Build3Tuples" /\ b3n > B3NMax(b_max)

Build3Table == IF N = 3 THEN tuples ELSE threetuple

\* C15: exactness of Build3Tuples.  It inserts, once each and nothing else,
\* every primitive triple with b_min <= c <= b_max when primitives-only, and
\* otherwise every Pythagorean triple with b_min <= c <= b_max.
C15_Build3Exact ==
  Build3Returned =>
    /\ Entries(Build3Table) =
         {t \in PythagoreanTriples :
            /\ B3Min <= t[2] /\ t[2] <= b_max
            /\ B3Prim = 1 => Coprime(t[1], t[2])}
    /\ Len(Build3Table) = Cardinality(Entries(Build3Table))

\* a run without -p whose b_min lies above the hypotenuse of a primitive
\* triple that has a multiple in range, and in which a pair m, n with a
\* common divisor (6, 3) was passed over
C15_Witness ==
  /\ Build3Returned /\ DoOnlyPrimitives = 0
  /\ b_min > 5 /\ b_max >= 45
  /\ \E k \in 1..Len(tuples) : tuples[k].a = <<27, 36>>

(***************************************************************************)
(* Unit runs of GetFirstBIndex: a table of triples in canonical order (so  *)
(* sorted by b) and a target B.                                            *)
(***************************************************************************)
FirstBInputs ==
  {[the_table |-> [k \in 1..Cardinality(S) |->
                     [a_count |-> 2, a |-> CanonicalSeq(S)[k][1], ptr |-> k,
                      b |-> CanonicalSeq(S)[k][2]]],
    B |-> B] :
      S \in SUBSET {t \in PythagoreanTriples : t[2] <= MaxH}, B \in 1..MaxH + 1}

InitFirstB ==
  /\ pc = "call GetFirstBIndex"
  /\ rq \in FirstBInputs
  /\ ret = -2
  /\ UnitIdle

CallGetFirstBIndex ==
  /\ pc = "call GetFirstBIndex"
  /\ \E found \in Bsearch(rq.the_table, rq.B) :
       ret' = GetFirstBIndex(rq.the_table, rq.B, found)
  /\ pc' = "returned"
  /\ UNCHANGED <<rq, unitVars>>

NextFirstB == CallGetFirstBIndex

SpecFirstB == InitFirstB /\ [][NextFirstB]_vars

\* the 0-based indices of the entries with b = B
IndicesOfB(t, B) == {k \in 0..Len(t) - 1 : t[k + 1].b = B}

\* C16: GetFirstBIndex.  On a table sorted by b it returns -1 when no entry
\* has b = B, and otherwise the smallest index with b = B, whichever match
\* the binary search lands on, also when that index is 0.
C16_GetFirstBIndex ==
  pc = "returned" =>
    IF IndicesOfB(rq.the_table, rq.B) = {}
    THEN ret = -1
    ELSE /\ ret \in IndicesOfB(rq.the_table, rq.B)
         /\ \A k \in IndicesOfB(rq.the_table, rq.B) : ret <= k

\* C16 for runs of equal b that do not start at index 0
C16_FirstBAwayFromZero ==
  pc = "returned" /\ IndicesOfB(rq.the_table, rq.B) # {} =>
    /\ ret \in IndicesOfB(rq.the_table, rq.B)
    /\ (\E k \in IndicesOfB(rq.the_table, rq.B) : k < ret) => ret = 1

(***************************************************************************)
(* The digit combinations of the enumeration and what one pass of the      *)
(* outer loop leaves out.                                                  *)
(***************************************************************************)
Combinations == [0..numtumblers - 1 -> 0..numsqrs - 1]

RECURSIVE SumSquaresFrom(_, _)
SumSquaresFrom(c, k) ==
  IF k >= numtumblers THEN 0 ELSE (c[k] + 1) * (c[k] + 1) + SumSquaresFrom(c, k + 1)

CombinationTotal(c) == SumSquaresFrom(c, 0)

\* mixed-radix order, tumbler 0 the most significant
RadixBefore(c, d) ==
  \E k \in 0..numtumblers - 1 :
    /\ c[k] < d[k]
    /\ \A j \in 0..k - 1 : c[j] = d[j]

\* the combination the pass starting in this state evaluates
Evaluated ==
  [sqrindextumbler EXCEPT ![lasttumbler] =
     SkipAhead(@, FillSubtotals(i, subtotaltumbler, sqrindextumbler)[lasttumbler - 1])]

\* left out by the skip-ahead of the pass: same leading digits, a last digit
\* from the one the pass started at up to the one before the evaluated one
SkippedAhead(c) ==
  /\ \A k \in 0..lasttumbler - 1 : c[k] = sqrindextumbler[k]
  /\ sqrindextumbler[lasttumbler] <= c[lasttumbler]
  /\ c[lasttumbler] < Evaluated[lasttumbler]

\* left out by a forced carry of the pass: after the evaluated combination
\* and before the one the next pass starts at (all later ones when the loop ends)
SkippedByCarry(c) ==
  /\ RadixBefore(Evaluated, c)
  /\ i' >= 0 => RadixBefore(c, sqrindextumbler')

InRange(t) == b_min_sqr <= t /\ t <= b_max_sqr /\ mpz_perfect_square_p(t)

\* C17: pruning is exact.  In every pass of the outer loop, each combination
\* left out by the skip-ahead has a total below b_min squared, each one left
\* out by a forced carry has a total above b_max squared, and so none with a
\* perfect-square total in [b_min^2, b_max^2] is left out.
C17_PruningExact ==
  [][pc = "enum" =>
       \A c \in Combinations :
         /\ SkippedAhead(c) => CombinationTotal(c) < b_min_sqr
         /\ SkippedByCarry(c) => CombinationTotal(c) > b_max_sqr
         /\ SkippedAhead(c) \/ SkippedByCarry(c) => ~InRange(CombinationTotal(c))]_vars

\* a pass ended on a total over the limit and left out larger last digits
C17_Witness ==
  /\ pc = "enum" /\ b_max >= 2 /\ b_min >= 3
  /\ subtotaltumbler[lasttumbler] > b_max_sqr
  /\ subtotaltumbler[lasttumbler] - subtotaltumbler[lasttumbler - 1] < numsqrs * numsqrs

\* a pass jumped over at least one last digit and evaluated the digit it landed on
C17_JumpedAhead ==
  /\ pc = "enum" /\ b_max >= 2 /\ i = lasttumbler
  /\ sqrindextumbler[lasttumbler] >= 2
  /\ sqrindextumbler[lasttumbler] * sqrindextumbler[lasttumbler]
       <= b_min_sqr - subtotaltumbler[lasttumbler - 1]

\* the indices at which the pass starting in this state reads sqrs:
\* lines 178 and 184 (the tumblers from i on) and line 202 (after the skip-ahead)
LookupReads ==
  {sqrindextumbler[k] : k \in i..lasttumbler} \cup {Evaluated[lasttumbler]}

\* C18: square-lookup bounds.  For every accepted input, every read of
\* sqrs during the enumeration uses an index in 0..numsqrs-1.
C18_LookupBounds ==
  pc = "enum" => \A k \in LookupReads : 0 <= k /\ k < numsqrs

\* C18 for a lookup that is not empty
C18_BoundsNonEmptyLookup ==
  pc = "enum" /\ b_max >= 2 => \A k \in LookupReads : 0 <= k /\ k < numsqrs

(***************************************************************************)
(* The exhaustive program alone, run to completion: the program is         *)
(* sequential, so a step of BuildNTuples that can be taken is taken.       *)
(***************************************************************************)
InitEnum == Init /\ args.prog = "ptuples"

NextEnum ==
  \/ Main
  \/ PtBuildStart
  \/ PtEnumStep
  \/ PtRemDup
  \/ PtMove
  \/ PrintTuples

\* PtRemDup is enabled whenever control is at the dedup and always moves
\* control on to the move, so its fairness is stated on that control step.
FairEnum ==
  /\ WF_vars(PtEnumStep)
  /\ WF_pc(pc = "RemDupTuples" /\ pc' = "move")
  /\ WF_vars(PtMove)

SpecEnum == InitEnum /\ [][NextEnum]_vars /\ FairEnum

\* C19: termination of the exhaustive enumeration.  Every pass that stays
\* in the loop moves the digit vector strictly forward in mixed-radix order,
\* the loop is left exactly when i is -1, the loop once entered is always
\* left, and then the dedup and the move run once each and BuildNTuples
\* returns.
C19_Termination ==
  /\ [][pc = "enum" /\ pc' = "enum" =>
          RadixBefore(sqrindextumbler, sqrindextumbler')]_vars
  /\ [](pc = "enum" => i >= 0)
  /\ [](pc \in {"RemDupTuples", "move", "print"} => i = -1)
  /\ [][pc = "RemDupTuples" => pc' = "move"]_vars
  /\ [][pc = "move" => pc' = "print"]_vars
  /\ (pc = "enum") ~> (pc = "print")

\* BuildNTuples has returned after a loop of several passes that found tuples
C19_Witness ==
  /\ pc = "print" /\ i = -1 /\ N = 4 /\ b_max >= 3
  /\ tuples # <<>>

(***************************************************************************)
(* The transfers between tables, one pass of their loops at a time: the    *)
(* scan of either RemDupTuples and the final move of BuildNTuples.  ret    *)
(* holds the source table as it was when the loop began (start), the       *)
(* source table (old), the destination (new) and the loop index (k).       *)
(***************************************************************************)
TransferOps == {"ptuples RemDupTuples", "qkptuples RemDupTuples", "final move"}

InitTransfer ==
  /\ pc = "call transfer"
  /\ rq \in [op : TransferOps, the_table : RemDupInputs, prim : {0, 1}]
  /\ ret = <<>>
  /\ UnitIdle

LoopState(start, old, new, k) == [start |-> start, old |-> old, new |-> new, k |-> k]

\* ptuples.cpp lines 324-329, one pass
PtRemDupIter(st) ==
  LET skip == NumDupsAhead(st.old, st.k)
      e == st.old[st.k + 1]
  IN LoopState(st.start,
               [st.old EXCEPT ![st.k + 1] = NullSlot(e)],
               MovePTuple(st.new, e.a, e.ptr, e.a_count, e.b),
               st.k + skip + 1)

\* qkptuples.cpp lines 457-467, one pass
QkRemDupIter(st) ==
  LET IsDuplicateTuple ==
        IF st.k > 0
        THEN CheckForDuplicateTuple(st.old[st.k].a, st.old[st.k + 1].a,
                                    st.old[st.k].a_count)
        ELSE 0
      e == st.old[st.k + 1]
  IN IF IsDuplicateTuple = 0
     THEN LoopState(st.start,
                    [st.old EXCEPT ![st.k + 1] = NullSlot(e)],
                    MovePTuple(st.new, e.a, e.ptr, e.a_count, e.b),
                    st.k + 1)
     ELSE LoopState(st.start, st.old, st.new, st.k + 1)

\* ptuples.cpp lines 234-242 and qkptuples.cpp lines 228-236, one pass
MoveIter(st, prim) ==
  LET e == st.old[st.k + 1]
  IN IF prim = 1 /\ TupleIsPrimitive(e.a, e.b, e.a_count) = 0
     THEN LoopState(st.start, st.old, st.new, st.k + 1)
     ELSE LoopState(st.start,
                    [st.old EXCEPT ![st.k + 1] = NullSlot(e)],
                    MovePTuple(st.new, e.a, e.ptr, e.a_count, e.b),
                    st.k + 1)

\* RemDupTuples up to its loop (the early return, the qsort, the empty
\* new_table), or the final move up to its loop
TransferStart ==
  /\ pc = "call transfer"
  /\ IF rq.op = "final move"
     THEN /\ ret' = LoopState(rq.the_table, rq.the_table, <<>>, 0)
          /\ pc' = "transfer"
     ELSE IF Len(rq.the_table) <= 1
     THEN /\ ret' = LoopState(rq.the_table, rq.the_table, <<>>, 0)
          /\ pc' = "transferred"
     ELSE /\ \E stable \in BOOLEAN :
               ret' = LoopState(QsortTable(rq.the_table, stable),
                                QsortTable(rq.the_table, stable), <<>>, 0)
          /\ pc' = "transfer"
  /\ UNCHANGED <<rq, unitVars>>

TransferIter ==
  /\ pc = "transfer" /\ ret.k < Len(ret.old)
  /\ ret' = IF rq.op = "ptuples RemDupTuples" THEN PtRemDupIter(ret)
            ELSE IF rq.op = "qkptuples RemDupTuples" THEN QkRemDupIter(ret)
            ELSE MoveIter(ret, rq.prim)
  /\ UNCHANGED <<pc, rq, unitVars>>

\* the loop is over; Cleanup_ttable of the source follows
TransferEnd ==
  /\ pc = "transfer" /\ ret.k >= Len(ret.old)
  /\ pc' = "transferred"
  /\ UNCHANGED <<ret, rq, unitVars>>

NextTransfer == TransferStart \/ TransferIter \/ TransferEnd

\* both programs, and the transfers pass by pass
InitAlias == Init \/ InitTransfer

NextAlias == Next \/ NextTransfer

SpecAlias == InitAlias /\ [][NextAlias]_vars

\* the storage ids held by the slots of a list of tables, one per slot that
\* is not null
HeldSlots(tables) ==
  UNION {{<<t, k>> : k \in {x \in 1..Len(tables[t]) : tables[t][x].ptr # 0}} :
           t \in 1..Len(tables)}

NoSharedStorage(tables) ==
  \A s1, s2 \in HeldSlots(tables) :
    tables[s1[1]][s1[2]].ptr = tables[s2[1]][s2[2]].ptr => s1 = s2

InTransfer == pc \in {"transfer", "transferred"}

\* C20: no aliasing of a-vectors.  Between table operations no a-vector
\* storage is held by more than one slot of the tables, and in every
\* transfer loop a source slot whose entry has been moved holds a null a
\* pointer and a_count 0, while every other source slot is untouched.
C20_NoAliasing ==
  /\ NoSharedStorage(AllTables)
  /\ InTransfer =>
       /\ NoSharedStorage(<<ret.old, ret.new>>)
       /\ \A k \in 1..Len(ret.start) :
            IF \E m \in 1..Len(ret.new) : ret.new[m].ptr = ret.start[k].ptr
            THEN ret.old[k].a = <<>> /\ ret.old[k].a_count = 0 /\ ret.old[k].ptr = 0
            ELSE ret.old[k] = ret.start[k]

\* the loops taken pass by pass end with the tables the programs' steps use
C20_TransferAgrees ==
  pc = "transferred" =>
    IF rq.op = "final move"
    THEN ret.new = MoveToFinal(<<>>, rq.the_table, rq.prim)
    ELSE \E stable \in BOOLEAN :
           (IF Len(rq.the_table) <= 1 THEN ret.old ELSE ret.new) =
             IF rq.op = "ptuples RemDupTuples"
             THEN PtRemDupTuples(rq.the_table, stable)
             ELSE QkRemDupTuples(rq.the_table, stable)

\* a transfer has moved some entries and left another in the source table
C20_Witness ==
  /\ pc = "transferred"
  /\ Len(ret.new) >= 2
  /\ \E k \in 1..Len(ret.old) : ret.old[k].ptr # 0
  /\ \E k \in 1..Len(ret.old) : ret.old[k].ptr = 0

(***************************************************************************)
(* Ownership of the a-vectors when BuildNTuples has returned.              *)
(***************************************************************************)
Created == 1..allocs

HeldBy(t) == {t[k].ptr : k \in 1..Len(t)} \ {0}

Released == {freed[k] : k \in 1..Len(freed)}

ReleasedOnce == \A x, y \in 1..Len(freed) : freed[x] = freed[y] => x = y

WorkingTables == <<tmp_table, threetuple, onesmaller_table, beingbuilt_table>>

BuildReturned == called /\ pc = "print"

\* C21: entries are destroyed exactly once.  When BuildNTuples returns, every
\* a-vector it created is either held by the output table or has been
\* released, never both; none has been released twice; and no working table
\* (tmp_table, the helper triple table, the stage tables) still holds one.
C21_DestroyedOnce ==
  /\ ReleasedOnce
  /\ BuildReturned =>
       /\ \A id \in Created : (id \in HeldBy(tuples)) # (id \in Released)
       /\ \A t \in 1..Len(WorkingTables) : HeldBy(WorkingTables[t]) = {}

\* C21 for the exhaustive program
C21_PtuplesDestroysOnce ==
  /\ ReleasedOnce
  /\ BuildReturned /\ args.prog = "ptuples" =>
       /\ \A id \in Created : (id \in HeldBy(tuples)) # (id \in Released)
       /\ \A t \in 1..Len(WorkingTables) : HeldBy(WorkingTables[t]) = {}

\* in the approximate program the a-vectors neither output nor released are
\* exactly those of the last onesmaller_table
C21_OnlyOneSmallerIsLeft ==
  BuildReturned /\ args.prog = "qkptuples" =>
    /\ Created \ (HeldBy(tuples) \cup Released) = HeldBy(onesmaller_table)
    /\ HeldBy(tuples) \cap Released = {}
    /\ HeldBy(tmp_table) \cup HeldBy(threetuple) \cup HeldBy(beingbuilt_table) = {}

(***************************************************************************)
(* Allocation outcomes.  calloc and realloc return NULL when they fail;    *)
(* what a write through NULL does is not defined, so the run is either     *)
(* killed there or carries on.                                             *)
(***************************************************************************)
AllocSites == {"sqrs", "avalues", "tuples"}

AllocResult(diagnostic, exited, usedNull, the_ttable) ==
  [diagnostic |-> diagnostic, exited |-> exited, usedNull |-> usedNull,
   the_ttable |-> the_ttable]

\* ptuples.cpp lines 146-150: the one allocation whose result is tested
AllocSqrs(got) ==
  IF got = "NULL"
  THEN AllocResult(TRUE, TRUE, FALSE, <<>>)
  ELSE AllocResult(FALSE, FALSE, FALSE, <<>>)

\* SaveToTuple lines 261-265, AddPTriple lines 402-404, BuildNTuples lines
\* 195-199: the a-vector is initialised through the pointer as returned
AllocAvalues(got, killed) ==
  IF got = "NULL"
  THEN AllocResult(FALSE, killed, TRUE, <<>>)
  ELSE AllocResult(FALSE, FALSE, FALSE, <<>>)

\* MovePTuple lines 279-294: the entry array is written through the pointer
\* as returned
MovePTupleAlloc(the_ttable, avalues, ptr, a_count, b, got, killed) ==
  IF got = "NULL"
  THEN AllocResult(FALSE, killed, TRUE, the_ttable)
  ELSE AllocResult(FALSE, FALSE, FALSE, MovePTuple(the_ttable, avalues, ptr, a_count, b))

AllocInputs ==
  [site : AllocSites, got : {"ok", "NULL"}, the_ttable : RemDupInputs,
   entry : PoolEntries]

InitAlloc ==
  /\ pc = "call alloc"
  /\ rq \in AllocInputs
  /\ ret = <<>>
  /\ UnitIdle

CallAllocSqrs ==
  /\ pc = "call alloc" /\ rq.site = "sqrs"
  /\ ret' = AllocSqrs(rq.got)
  /\ pc' = "allocated"
  /\ UNCHANGED <<rq, unitVars>>

CallAllocAvalues ==
  /\ pc = "call alloc" /\ rq.site = "avalues"
  /\ \E killed \in BOOLEAN : ret' = AllocAvalues(rq.got, killed)
  /\ pc' = "allocated"
  /\ UNCHANGED <<rq, unitVars>>

CallMovePTuple ==
  /\ pc = "call alloc" /\ rq.site = "tuples"
  /\ \E killed \in BOOLEAN :
       ret' = MovePTupleAlloc(rq.the_ttable, rq.entry.a, Len(rq.the_ttable) + 1,
                              rq.entry.a_count, rq.entry.b, rq.got, killed)
  /\ pc' = "allocated"
  /\ UNCHANGED <<rq, unitVars>>

NextAlloc == CallAllocSqrs \/ CallAllocAvalues \/ CallMovePTuple

SpecAlloc == InitAlloc /\ [][NextAlloc]_vars

\* C22: allocation failure during table growth is fatal.  When the
\* allocation of the entry array in MovePTuple, or of an a-vector before it,
\* fails, the program prints a diagnostic and ends at once, without using
\* the failed pointer.
C22_AllocFailureFatal ==
  pc = "allocated" /\ rq.got = "NULL" /\ rq.site \in {"avalues", "tuples"} =>
    ret.diagnostic /\ ret.exited /\ ~ret.usedNull

\* the allocation of the square lookup is the one whose failure is fatal
C22_SqrsFailureFatal ==
  pc = "allocated" /\ rq.got = "NULL" /\ rq.site = "sqrs" =>
    ret.diagnostic /\ ret.exited /\ ~ret.usedNull

(***************************************************************************)
(* Unit runs of Cleanup_ttable: a table reference that is NULL or a table  *)
(* some of whose slots have been moved out, torn down twice in a row.      *)
(***************************************************************************)
NothingReleased(the_ttable) ==
  [the_ttable |-> the_ttable, avalues |-> {}, avectors |-> <<>>, bvalues |-> {}]

\* lines 385-388, then the body
CleanupRef(ref, the_ttable) ==
  IF ref = "NULL" THEN NothingReleased(the_ttable) ELSE Cleanup_ttable(the_ttable)

CleanupInputs ==
  [ref : {"NULL", "table"}, the_table : RemDupInputs, moved : SUBSET (1..MaxLen)]

\* the table the reference of request q points to: the slots in q.moved
\* have been moved out
Torn(q) ==
  [k \in 1..Len(q.the_table) |->
     IF k \in q.moved THEN NullSlot(q.the_table[k]) ELSE q.the_table[k]]

InitCleanup ==
  /\ pc = "call Cleanup_ttable"
  /\ rq \in CleanupInputs
  /\ ret = <<>>
  /\ UnitIdle

CallCleanup ==
  /\ pc = "call Cleanup_ttable"
  /\ ret' = <<CleanupRef(rq.ref, Torn(rq))>>
  /\ pc' = "cleaned"
  /\ UNCHANGED <<rq, unitVars>>

CallCleanupAgain ==
  /\ pc = "cleaned"
  /\ ret' = Append(ret, CleanupRef(rq.ref, ret[1].the_ttable))
  /\ pc' = "cleaned again"
  /\ UNCHANGED <<rq, unitVars>>

NextCleanup == CallCleanup \/ CallCleanupAgain

SpecCleanup == InitCleanup /\ [][NextCleanup]_vars

\* the a-values a table owns, by slot and position, and its a-vectors
OwnedAValues(t) == {<<k, j>> \in (1..Len(t)) \X (1..MaxCount) : j <= Len(t[k].a)}
OwnedAVectors(t) == {t[k].ptr : k \in {x \in 1..Len(t) : t[x].a # <<>>}}

\* C23: teardown.  Cleanup_ttable on a NULL reference does nothing; on a
\* table it releases every owned a-value and every b once and leaves the
\* table empty; a second call changes and releases nothing; a slot whose
\* a-vector was moved out releases no a-value.
C23_Teardown ==
  /\ pc \in {"cleaned", "cleaned again"} =>
       IF rq.ref = "NULL"
       THEN ret[1] = NothingReleased(Torn(rq))
       ELSE /\ ret[1].the_ttable = <<>>
            /\ ret[1].avalues = OwnedAValues(Torn(rq))
            /\ ret[1].bvalues = 1..Len(Torn(rq))
            /\ {ret[1].avectors[k] : k \in 1..Len(ret[1].avectors)} = OwnedAVectors(Torn(rq))
            /\ Len(ret[1].avectors) = Cardinality(OwnedAVectors(Torn(rq)))
            /\ \A k \in 1..Len(Torn(rq)) :
                 Torn(rq)[k].a = <<>> =>
                   \A j \in 1..MaxCount : <<k, j>> \notin ret[1].avalues
  /\ pc = "cleaned again" => ret[2] = NothingReleased(ret[1].the_ttable)

\* a table with a moved-out slot and an owned one has been torn down twice
C23_Witness ==
  /\ pc = "cleaned again" /\ rq.ref = "table"
  /\ \E k \in 1..Len(Torn(rq)) : Torn(rq)[k].a = <<>>
  /\ ret[1].avalues # {}
  /\ ret[2].avalues = {}

(***************************************************************************)
(* TupleIsPrimitive with what it prints and which a-values it reads, on    *)
(* vectors of any length from 0 on, beside the two programs.               *)
(***************************************************************************)
InternalError == "Internal Error:  TuplesIsPrimitive().  acount < 2."

\* the gcd held after avalues[0..k-1] have been folded in, k >= 2
RECURSIVE GcdOfFirst(_, _)
GcdOfFirst(avalues, k) ==
  IF k <= 2 THEN mpz_gcd(avalues[1], avalues[2])
  ELSE mpz_gcd(GcdOfFirst(avalues, k - 1), avalues[k])

\* faulty variant: the first gcd is taken before acount is tested
TupleIsPrimitiveTraced_GcdFirst(avalues, b, acount) ==
  [value |-> TupleIsPrimitive(avalues, b, acount),
   printed |-> IF acount < 2 THEN <<InternalError>> ELSE <<>>,
   reads |-> {0, 1} \cup {k \in 2..acount - 1 : GcdOfFirst(avalues, k) # 1},
   exited |-> FALSE]

\* lines 350-382: the result, the line printed, the indices of the a-values
\* read (index i is read while the gcd so far is not 1), and no exit
TupleIsPrimitiveTraced(avalues, b, acount) ==
  [value |-> TupleIsPrimitive(avalues, b, acount),
   printed |-> IF acount < 2 THEN <<InternalError>> ELSE <<>>,
   reads |-> IF acount < 2 THEN {}
             ELSE {0, 1} \cup {k \in 2..acount - 1 : GcdOfFirst(avalues, k) # 1},
   exited |-> FALSE]

FallbackInputs ==
  {[avalues |-> a, b |-> b, acount |-> Len(a)] :
      a \in UNION {[1..n -> 1..MaxVal] : n \in 0..MaxCount}, b \in 1..MaxVal}

InitFallback ==
  /\ pc = "call TupleIsPrimitive"
  /\ rq \in FallbackInputs
  /\ ret = <<>>
  /\ UnitIdle

CallTupleIsPrimitiveTraced ==
  /\ pc = "call TupleIsPrimitive"
  /\ ret' = TupleIsPrimitiveTraced(rq.avalues, rq.b, rq.acount)
  /\ pc' = "traced"
  /\ UNCHANGED <<rq, unitVars>>

InitCallSites == Init \/ InitFallback

NextCallSites == Next \/ CallTupleIsPrimitiveTraced

SpecCallSites == InitCallSites /\ [][NextCallSites]_vars

\* the table whose entries the move passes to TupleIsPrimitive
MoveSource == IF args.prog = "ptuples" THEN tmp_table ELSE beingbuilt_table

\* C24: primitivity precondition fallback.  TupleIsPrimitive called with
\* fewer than 2 a-values prints the internal error and returns 0 without
\* reading an a-value and without ending the program; and every entry either
\* engine passes to it has a_count = N - 1 >= 2.
C24_Fallback ==
  /\ pc = "traced" /\ rq.acount < 2 =>
       /\ ret.value = 0
       /\ ret.printed = <<InternalError>>
       /\ ret.reads = {}
       /\ ~ret.exited
  /\ pc = "move" =>
       \A k \in 1..Len(MoveSource) :
         MoveSource[k].a_count = N - 1 /\ MoveSource[k].a_count >= 2

\* the fallback has been taken on a vector of one a-value
C24_Witness ==
  /\ pc = "traced" /\ rq.acount = 1
  /\ ret.value = 0 /\ ret.printed # <<>>

\* a move with -p is about to pass entries to TupleIsPrimitive
C24_CallSiteReached ==
  /\ pc = "move" /\ DoOnlyPrimitives = 1
  /\ Len(MoveSource) >= 2

\* the printed triples are in non-decreasing order of <<c, leg>>, leg being
\* position 1 (the smaller leg a) or 2 (the larger leg b) of the line
OrderedByCThen(leg) ==
  \A k \in 1..Len(pout) - 1 :
    \/ pout[k][3] < pout[k + 1][3]
    \/ pout[k][3] = pout[k + 1][3] /\ pout[k][leg] <= pout[k + 1][leg]

PtriplesDone == pc = "ptriples exit" /\ exitcode = 0

\* C25: ptriples output order.  ptriples prints its triples by c ascending
\* and, for equal c, by the smaller leg a ascending; so on the same input it
\* prints the same lines in the same order as the approximate program with
\* tuple_size 3.
C25_PtriplesOrder ==
  PtriplesDone =>
    /\ OrderedByCThen(1)
    /\ args.prog = "qkptuples" => TripleLines = out

\* what ptriples does: equal c are ordered by the larger leg b, and the
\* lines are those of the approximate program in some order
C25_OrderedByLargerLeg ==
  PtriplesDone =>
    /\ OrderedByCThen(2)
    /\ args.prog = "qkptuples" =>
         /\ {TripleLines[k] : k \in 1..Len(pout)} = {out[k] : k \in 1..Len(out)}
         /\ Len(pout) = Len(out)
  

====
